---- MODULE Spec2Model ----
(***************************************************************************)
(* Vault-safe-access subsystem of command-center: the path guard           *)
(* (src/lib/utils/paths.ts), the safe writer with retry, backup rotation   *)
(* and rollback (src/lib/safety/safe-write.ts) and the hot-path scanner.   *)
(*                                                                         *)
(* Paths are sequences of one-character strings, so that normalisation,    *)
(* lower-casing, prefix tests and the ".tmp" / ".bak.n" suffixes are       *)
(* computed the way the code computes them on strings.  The filesystem is  *)
(* a set of directories and a set of <<path, content>> pairs, one for each *)
(* existing file.  Every await of safeWriteFile is one step, and every     *)
(* filesystem call may fail: with a lock error (EBUSY, retryable) or with  *)
(* a permanent error (EIO, not retryable) that may leave the destination   *)
(* of a write or copy partial or removed.                                  *)
(*                                                                         *)
(* The hot-path scanner (src/lib/obsidian/scanner.ts) runs on a mock vault *)
(* with its module-level cache slot and a clock in milliseconds; every     *)
(* await of scanVault is one step, so scans overlap with each other, with  *)
(* invalidateCache and with the write path (src/lib/obsidian/vault.ts).    *)
(*                                                                         *)
(* Specifications: Spec (sequential safeWriteFile calls), RetrySpec and    *)
(* RetryLiveSpec (withRetry on an arbitrary operation), PathSpec           *)
(* (isWithinRoot on enumerated arguments), ScanSpec (scanner, healthy      *)
(* filesystem), FaultySpec (scanner, failing listings and stats), SysSpec  *)
(* (write path next to the scanner), RotateSpec (one write over any        *)
(* pattern of occupied backup slots), ConcSpec (two interleaved writes of  *)
(* one note), ReadSpec (the readers of src/lib/obsidian/vault.ts).         *)
(***************************************************************************)
EXTENDS Integers, Sequences, FiniteSets, TLC

\* ------------------------------------------------------------------ bounds
MaxCalls == 2
MaxN == 1
MaxScans == 2
MaxTicks == 2
MaxFaults == 1
MaxPathLen == 5
MaxSlots == 3

\* ------------------------------------------------------- program constants
MAX_BACKUPS == 5
RETRY_DELAYS == <<200, 400, 800, 1600>>
RETRYABLE_CODES == {"EACCES", "EBUSY", "EPERM"}
WINDOWS_MAX_PATH == 260

\* ------------------------------------------------------------- path guard
Cwd == <<"/", "w">>

RECURSIVE SplitFrom(_, _, _)
SplitFrom(s, i, cur) ==
  IF i > Len(s) THEN <<cur>>
  ELSE IF s[i] = "/" THEN <<cur>> \o SplitFrom(s, i + 1, <<>>)
  ELSE SplitFrom(s, i + 1, Append(cur, s[i]))

Split(s) == SplitFrom(s, 1, <<>>)

RECURSIVE NormSegs(_, _)
NormSegs(segs, acc) ==
  IF segs = <<>> THEN acc
  ELSE LET h == Head(segs) IN
       IF h = <<>> \/ h = <<".">> THEN NormSegs(Tail(segs), acc)
       ELSE IF h = <<".", ".">>
            THEN NormSegs(Tail(segs),
                          IF acc = <<>> THEN acc ELSE SubSeq(acc, 1, Len(acc) - 1))
            ELSE NormSegs(Tail(segs), Append(acc, h))

RECURSIVE JoinSegs(_)
JoinSegs(segs) ==
  IF segs = <<>> THEN <<>> ELSE <<"/">> \o Head(segs) \o JoinSegs(Tail(segs))

IsAbsolute(p) == Len(p) > 0 /\ p[1] = "/"

\* path.resolve: absolute, "." and ".." resolved, no trailing separator
\* (the filesystem root stays "/")
resolve(p) ==
  LET segs == IF IsAbsolute(p) THEN Split(p) ELSE Split(Cwd) \o Split(p)
      j == JoinSegs(NormSegs(segs, <<>>))
  IN IF j = <<>> THEN <<"/">> ELSE j

ReplaceBackslashes(s) == [i \in 1..Len(s) |-> IF s[i] = "\\" THEN "/" ELSE s[i]]

StripTrailingSlash(s) ==
  IF Len(s) > 0 /\ s[Len(s)] = "/" THEN SubSeq(s, 1, Len(s) - 1) ELSE s

normalizePath(p) == StripTrailingSlash(ReplaceBackslashes(resolve(p)))

LowerChar(ch) ==
  CASE ch = "V" -> "v"
    [] ch = "T" -> "t"
    [] ch = "A" -> "a"
    [] ch = "E" -> "e"
    [] ch = "X" -> "x"
    [] ch = "M" -> "m"
    [] ch = "D" -> "d"
    [] OTHER -> ch

toLowerCase(s) == [i \in 1..Len(s) |-> LowerChar(s[i])]

startsWith(s, pre) == Len(s) >= Len(pre) /\ SubSeq(s, 1, Len(pre)) = pre

isWithinRoot_CaseSensitive(filePath, rootPath) ==
  LET normalFile == normalizePath(filePath)
      normalRoot == normalizePath(rootPath)
  IN normalFile = normalRoot \/ startsWith(normalFile, normalRoot \o <<"/">>)

isWithinRoot_NoSeparator(filePath, rootPath) ==
  LET normalFile == toLowerCase(normalizePath(filePath))
      normalRoot == toLowerCase(normalizePath(rootPath))
  IN normalFile = normalRoot \/ startsWith(normalFile, normalRoot)

isWithinRoot(filePath, rootPath) ==
  LET normalFile == toLowerCase(normalizePath(filePath))
      normalRoot == toLowerCase(normalizePath(rootPath))
  IN normalFile = normalRoot \/ startsWith(normalFile, normalRoot \o <<"/">>)

checkPathLength(p) == Len(resolve(p)) > WINDOWS_MAX_PATH

\* index of the last occurrence of ch in s, 0 when there is none
LastIndexOf(s, ch) ==
  LET hits == {i \in 1..Len(s) : s[i] = ch}
  IN IF hits = {} THEN 0 ELSE CHOOSE i \in hits : \A j \in hits : j <= i

\* path.dirname
dirname(p) ==
  LET k == LastIndexOf(p, "/")
  IN IF k = 0 THEN <<".">> ELSE IF k = 1 THEN <<"/">> ELSE SubSeq(p, 1, k - 1)

\* path.basename(p)
basename(p) == SubSeq(p, LastIndexOf(p, "/") + 1, Len(p))

\* path.extname
extname(p) ==
  LET b == basename(p)
      k == LastIndexOf(b, ".")
  IN IF k <= 1 THEN <<>> ELSE SubSeq(b, k, Len(b))

endsWith(s, suf) ==
  Len(s) >= Len(suf) /\ SubSeq(s, Len(s) - Len(suf) + 1, Len(s)) = suf

\* path.basename(p, ext)
basenameExt(p, ext) ==
  LET b == basename(p)
  IN IF ext # <<>> /\ b # ext /\ endsWith(b, ext)
     THEN SubSeq(b, 1, Len(b) - Len(ext)) ELSE b

\* path.join of a directory and a name
pathJoin(dir, name) ==
  LET j == JoinSegs(NormSegs(Split(dir \o <<"/">> \o name), <<>>))
  IN IF IsAbsolute(dir) THEN (IF j = <<>> THEN <<"/">> ELSE j)
     ELSE IF j = <<>> THEN <<".">> ELSE Tail(j)

Digit(n) ==
  CASE n = 0 -> "0" [] n = 1 -> "1" [] n = 2 -> "2" [] n = 3 -> "3"
    [] n = 4 -> "4" [] n = 5 -> "5" [] n = 6 -> "6" [] n = 7 -> "7"
    [] n = 8 -> "8" [] OTHER -> "9"

RECURSIVE NumToChars(_)
NumToChars(n) ==
  IF n < 0 THEN <<"-">> \o NumToChars(0 - n)
  ELSE IF n < 10 THEN <<Digit(n)>>
  ELSE NumToChars(n \div 10) \o <<Digit(n % 10)>>

TmpSuffix == <<".", "t", "m", "p">>
BakInfix == <<".", "b", "a", "k", ".">>

\* `${base}${ext}.bak.${i}` joined to the directory of the file
BackupName(filePath, i) ==
  LET dir == dirname(filePath)
      ext == extname(filePath)
      base == basenameExt(filePath, ext)
  IN pathJoin(dir, base \o ext \o BakInfix \o NumToChars(i))

\* ------------------------------------------------------------- filesystem
\* A file is a pair <<path, content>>; Partial is what a write or copy that
\* failed half-way leaves behind.
Partial == "PARTIAL"
\* the content written by the k-th call: every call writes a new version
NewContent(k) ==
  CASE k = 1 -> "v1" [] k = 2 -> "v2" [] k = 3 -> "v3" [] k = 4 -> "v4"
    [] k = 5 -> "v5" [] OTHER -> "v6"

Exists(f, path) == \E e \in f : e[1] = path
Read(f, path) == (CHOOSE e \in f : e[1] = path)[2]
Put(f, path, data) == {e \in f : e[1] # path} \cup {<<path, data>>}
Del(f, path) == {e \in f : e[1] # path}

RECURSIVE AncestorsOrSelf(_)
AncestorsOrSelf(dir) ==
  IF dir = <<"/">> \/ dir = <<".">> \/ dir = <<>> THEN {dir}
  ELSE {dir} \cup AncestorsOrSelf(dirname(dir))

\* fs.mkdir(dir, {recursive: true}): the possible outcomes
FsMkdir(f, d, dir) ==
  IF \E a \in AncestorsOrSelf(dir) : Exists(f, a)
  THEN {[dirs |-> d, code |-> "EEXIST"]}
  ELSE {[dirs |-> d \cup AncestorsOrSelf(dir), code |-> "ok"],
        [dirs |-> d, code |-> "EBUSY"],
        [dirs |-> d, code |-> "EIO"]}

\* fs.writeFile(path, content): a permanent failure may leave a partial file
FsWriteFile(f, d, path, content) ==
  IF dirname(path) \notin d \/ path \in d
  THEN {[files |-> f, code |-> "ENOENT"]}
  ELSE {[files |-> Put(f, path, content), code |-> "ok"],
        [files |-> f, code |-> "EBUSY"],
        [files |-> f, code |-> "EIO"],
        [files |-> Put(f, path, Partial), code |-> "EIO"]}

\* fs.copyFile(src, dest): not atomic; a permanent failure after the
\* destination was opened leaves it partial or removed
FsCopyFile(f, d, src, dest) ==
  IF ~Exists(f, src) \/ dest \in d \/ dirname(dest) \notin d
  THEN {[files |-> f, code |-> "ENOENT"]}
  ELSE {[files |-> Put(f, dest, Read(f, src)), code |-> "ok"],
        [files |-> f, code |-> "EBUSY"],
        [files |-> f, code |-> "EIO"],
        [files |-> Put(f, dest, Partial), code |-> "EIO"],
        [files |-> Del(f, dest), code |-> "EIO"]}

\* fs.unlink(path)
FsUnlink(f, path) ==
  IF Exists(f, path)
  THEN {[files |-> Del(f, path), code |-> "ok"], [files |-> f, code |-> "EBUSY"]}
  ELSE {[files |-> f, code |-> "ENOENT"]}

\* fs.rename(from, to): replaces an existing destination
FsRename(f, d, from, to) ==
  IF Exists(f, from) /\ to \notin d
  THEN {[files |-> Put(Del(f, from), to, Read(f, from)), code |-> "ok"],
        [files |-> f, code |-> "EBUSY"]}
  ELSE {[files |-> f, code |-> "ENOENT"]}

\* fs.access(path): the possible error codes
FsAccess(f, d, path) ==
  IF Exists(f, path) \/ path \in d THEN {"ok", "EACCES"} ELSE {"ENOENT"}

\* ------------------------------------------------------------------ inputs
VaultRootArg == <<"/", "v", "/">>
P_Target == <<"/", "v", "/", "t", "/", "a", ".", "m", "d">>
P_Dots == <<"/", "v", "/", "x", "/", ".", ".", "/", "t", "/", "a", ".", "m", "d">>
P_Root == <<"/", "v">>
P_Esc1 == <<"/", "v", "/", ".", ".", "/", "e", ".", "m", "d">>
P_Esc2 == <<"/", "v", "/", "t", "/", ".", ".", "/", ".", ".", "/", "e", ".", "m", "d">>
P_Sibling == <<"/", "v", "x", "/", "a", ".", "m", "d">>
PathArgs == {P_Target, P_Dots, P_Root, P_Esc1, P_Esc2, P_Sibling}

\* an optional argument is <<>> (undefined) or <<value>>
BackupArgs == {<<>>, <<TRUE>>, <<FALSE>>}
MaxBackupsArgs == {<<>>} \cup {<<n>> : n \in 0..MaxN}

None == <<>>
Procs == {1, 2}
Writers == {1}

\* ------------------------------------------------------------------- state
VARIABLES
  files,   \* the existing files: a set of <<path, content>>
  dirs,    \* the existing directories
  call,    \* per caller: the locals of its safeWriteFile call and its position
  calls,   \* number of safeWriteFile calls started
  config,  \* the maxBackups option the caller is configured to pass
  obs,     \* per caller: what the running call was observed to do (history)
  hist,    \* history of the writes to Target (history)
  retry,   \* a withRetry call on an arbitrary operation: its locals and trace
  query,   \* an isWithinRoot(p, r) call: its arguments and its answer
  scan,    \* per scanVault call slot: its locals and its position
  cachedResult,  \* scanner.ts module state: <<>> (null) or <<ScanResult>>
  cacheTime,     \* scanner.ts module state: Date.now() of the cached scan's start
  clock,   \* Date.now(), in ms
  sobs,    \* what the scanVault calls were observed to do (history)
  reader   \* a call of a vault.ts reader: its locals, position and outcome

scannerVars == <<scan, cachedResult, cacheTime, clock, sobs>>
vars == <<files, dirs, call, calls, config, obs, hist, retry, query, scannerVars, reader>>

Target == normalizePath(P_Target)
Absent == "ABSENT"
ContentOf(f, path) == IF Exists(f, path) THEN Read(f, path) ELSE Absent

NoResult == [success |-> FALSE, error |-> "pending", backupPath |-> None]

IdleCall ==
  [pc |-> "idle", normalized |-> None, content |-> "", shouldBackup |-> FALSE,
   maxBackups |-> 0, dir |-> None, tmpPath |-> None, backupPath |-> None,
   attempt |-> 0, i |-> 0, result |-> NoResult]

NoObs ==
  [preFiles |-> {}, preDirs |-> {}, didIO |-> FALSE, faulted |-> FALSE, lockRun |-> 0,
   failOp |-> "none", failCode |-> "none", failLocks |-> 0,
   unlinkFailed |-> FALSE, backupMade |-> FALSE, rollback |-> "none"]

InitHist ==
  [fresh |-> TRUE, clean |-> TRUE, written |-> <<>>,
   lastBacked |-> FALSE, lastOverwrote |-> Absent]

\* ----------------------------------------------- idle values of the rest
\* withRetry has not been called
IdleRetry ==
  [pc |-> "idle", attempt |-> 0, invoked |-> 0, slept |-> <<>>,
   errors |-> <<>>, value |-> 0, thrown |-> <<>>]

\* isWithinRoot has not been called
NoQuery == [pc |-> "idle", p |-> <<>>, r |-> <<>>, answer |-> FALSE]

Scanners == {1, 2}

\* the time unit is the millisecond, as Date.now()
DayMs == 24 * 60 * 60 * 1000
T0 == 2 * DayMs

IdleScan ==
  [pc |-> "idle", root |-> <<>>, now |-> 0, j |-> 0, pending |-> <<>>,
   files |-> <<>>, result |-> <<>>]

\* history of one scanVault call
NoScanObs ==
  [startCache |-> <<>>, startCacheTime |-> 0, touchedFs |-> FALSE,
   failed |-> {}, afterInvalidate |-> FALSE, afterWrite |-> FALSE,
   sinceWrite |-> 0, artifacts |-> FALSE]

\* history of the scanner: fs faults still to inject, scanVault calls started,
\* invalidateCache() returned and no scanVault started since, time since the
\* last successful write returned, the roots scanVault was called with
NoSobs ==
  [faults |-> 0, scans |-> 0, invalidated |-> FALSE, sinceWrite |-> 0, roots |-> {}, of |-> [s \in Scanners |-> NoScanObs]]

\* no reader of vault.ts has been called
NoRead ==
  [pc |-> "idle", op |-> "none", filePath |-> <<>>, normalized |-> <<>>,
   env |-> <<>>, touchedFs |-> FALSE, outcome |-> "none", error |-> "none",
   value |-> <<>>]

WriterIdle ==
  /\ call = [p \in Procs |-> IdleCall]
  /\ calls = 0
  /\ obs = [p \in Procs |-> NoObs]

ScannerIdle ==
  /\ scan = [s \in Scanners |-> IdleScan]
  /\ cachedResult = <<>>
  /\ cacheTime = 0
  /\ clock = T0

\* The vault root exists; the target is either not there yet or was put
\* there before the first call (as the tests do with fs.writeFile).
Init ==
  /\ \/ /\ files = {}
        /\ dirs = {<<"/">>, normalizePath(VaultRootArg)}
        /\ hist = InitHist
     \/ /\ files = {<<Target, "v0">>}
        /\ dirs = {<<"/">>, normalizePath(VaultRootArg), dirname(Target)}
        /\ hist = [InitHist EXCEPT !.fresh = FALSE]
  /\ WriterIdle
  /\ config \in [maxBackups : MaxBackupsArgs]
  /\ retry = IdleRetry
  /\ query = NoQuery
  /\ ScannerIdle
  /\ reader = NoRead
  /\ sobs = NoSobs

IsLock(code) == code \in RETRYABLE_CODES

RetryDecision_RetryAll(attempt, code) ==
  IF code = "ok" THEN "return"
  ELSE IF attempt < Len(RETRY_DELAYS) THEN "retry"
  ELSE "throw"

RetryDecision_NoLimit(attempt, code) ==
  IF code = "ok" THEN "return"
  ELSE IF IsLock(code) THEN "retry"
  ELSE "throw"

RetryDecision_Swallow(attempt, code) ==
  IF code = "ok" THEN "return"
  ELSE IF IsLock(code) /\ attempt < Len(RETRY_DELAYS) THEN "retry"
  ELSE "return"

\* withRetry: what follows an attempt that ended with `code`
RetryDecision(attempt, code) ==
  IF code = "ok" THEN "return"
  ELSE IF IsLock(code) /\ attempt < Len(RETRY_DELAYS) THEN "retry"
  ELSE "throw"

\* entry of the catch block of safeWriteFile: rollback only with a backup
CatchEntry(c) ==
  [c EXCEPT !.pc = IF c.backupPath # None THEN "rollback" ELSE "catchCleanup",
            !.attempt = 0]

\* history: a filesystem call of the running call ended with `code`; a fault
\* is an error that is not the plain absence of the file
IsFault(code) == code \in {"EBUSY", "EIO", "EACCES"}
Saw(o, code) == [o EXCEPT !.didIO = TRUE, !.faulted = o.faulted \/ IsFault(code)]

\* history: the exception that took the call into the catch block
Failed(o, op, code) ==
  [Saw(o, code) EXCEPT !.failOp = op, !.failCode = code,
            !.failLocks = IF IsLock(code) THEN o.lockRun + 1 ELSE o.lockRun,
            !.lockRun = 0]

\* history: a call on Target returned
HistOnReturn(h, c, o, success) ==
  IF c.normalized # Target THEN h
  ELSE IF success
  THEN [h EXCEPT !.written = Append(h.written, c.content),
                 !.clean = h.clean /\ ~o.faulted,
                 !.lastOverwrote = ContentOf(o.preFiles, Target),
                 !.lastBacked = c.shouldBackup /\ Exists(o.preFiles, Target)]
  ELSE [h EXCEPT !.clean = FALSE]

\* history: a call on Target started
HistOnStart(h, n, shouldBackup) ==
  IF n # Target THEN h
  ELSE [h EXCEPT !.clean = h.clean /\ shouldBackup]

\* --------------------------------------------------------------- safe-write
\* safeWriteFile, lines 66-81: normalise, traversal check, locals
Start(p, filePath, content, backup) ==
  /\ call[p].pc \in {"idle", "done"}
  /\ calls < MaxCalls
  /\ calls' = calls + 1
  /\ LET normalized == normalizePath(filePath)
         normalizedRoot == normalizePath(VaultRootArg)
         shouldBackup == backup # <<FALSE>>
         maxBackups == IF config.maxBackups = <<>> THEN MAX_BACKUPS
                       ELSE config.maxBackups[1]
     IN /\ obs' = [obs EXCEPT ![p] = [NoObs EXCEPT !.preFiles = files, !.preDirs = dirs]]
        /\ IF ~isWithinRoot(normalized, normalizedRoot)
           THEN /\ call' = [call EXCEPT ![p] =
                     [IdleCall EXCEPT !.pc = "done", !.normalized = normalized,
                        !.content = content,
                        !.result = [success |-> FALSE,
                                    error |-> "Path traversal blocked",
                                    backupPath |-> None]]]
                /\ hist' = hist
           ELSE /\ call' = [call EXCEPT ![p] =
                     [IdleCall EXCEPT !.pc = "mkdir", !.normalized = normalized,
                        !.content = content, !.shouldBackup = shouldBackup,
                        !.maxBackups = maxBackups, !.dir = dirname(normalized),
                        !.tmpPath = normalized \o TmpSuffix]]
                /\ hist' = HistOnStart(hist, normalized, shouldBackup)
  /\ UNCHANGED <<reader, retry, query, scannerVars, files, dirs, config>>

\* line 85: await fs.mkdir(dir, {recursive: true})
Mkdir(p) ==
  LET c == call[p] o == obs[p] IN
  /\ c.pc = "mkdir"
  /\ \E r \in FsMkdir(files, dirs, c.dir) :
       /\ dirs' = r.dirs
       /\ IF r.code = "ok"
          THEN /\ call' = [call EXCEPT ![p] = [c EXCEPT !.pc = "writeTmp", !.attempt = 0]]
               /\ obs' = [obs EXCEPT ![p] = Saw(o, r.code)]
          ELSE /\ call' = [call EXCEPT ![p] = CatchEntry(c)]
               /\ obs' = [obs EXCEPT ![p] = Failed([o EXCEPT !.lockRun = 0], "mkdir", r.code)]
  /\ UNCHANGED <<reader, retry, query, scannerVars, files, calls, config, hist>>

\* line 88: one attempt of writeWithRetry(tmpPath, content)
WriteTmp(p) ==
  LET c == call[p] o == obs[p] IN
  /\ c.pc = "writeTmp"
  /\ \E r \in FsWriteFile(files, dirs, c.tmpPath, c.content) :
       LET d == RetryDecision(c.attempt, r.code) IN
       /\ files' = r.files
       /\ CASE d = "return" ->
                 /\ call' = [call EXCEPT ![p] =
                      [c EXCEPT !.pc = IF c.shouldBackup THEN "access" ELSE "copyTarget",
                                !.attempt = 0]]
                 /\ obs' = [obs EXCEPT ![p] = [Saw(o, r.code) EXCEPT !.lockRun = 0]]
            [] d = "retry" ->
                 /\ call' = [call EXCEPT ![p] = [c EXCEPT !.attempt = c.attempt + 1]]
                 /\ obs' = [obs EXCEPT ![p] =
                      [Saw(o, r.code) EXCEPT !.lockRun = o.lockRun + 1]]
            [] OTHER ->
                 /\ call' = [call EXCEPT ![p] = CatchEntry(c)]
                 /\ obs' = [obs EXCEPT ![p] = Failed(o, "writeTmp", r.code)]
  /\ UNCHANGED <<reader, retry, query, scannerVars, dirs, calls, config, hist>>

BackupAccess_NoCheck(p) ==
  LET c == call[p] o == obs[p] IN
  /\ c.pc = "access"
  /\ \E code \in FsAccess(files, dirs, c.normalized) :
       /\ call' = [call EXCEPT ![p] =
            IF c.maxBackups >= 1 THEN [c EXCEPT !.pc = "rotate", !.i = c.maxBackups]
            ELSE [c EXCEPT !.pc = "backupCopy"]]
       /\ obs' = [obs EXCEPT ![p] = Saw(o, code)]
  /\ UNCHANGED <<reader, retry, query, scannerVars, files, dirs, calls, config, hist>>

\* createBackup, lines 165-169: await fs.access(filePath)
BackupAccess(p) ==
  LET c == call[p] o == obs[p] IN
  /\ c.pc = "access"
  /\ \E code \in FsAccess(files, dirs, c.normalized) :
       /\ call' = [call EXCEPT ![p] =
            IF code # "ok" THEN [c EXCEPT !.pc = "copyTarget", !.attempt = 0]
            ELSE IF c.maxBackups >= 1 THEN [c EXCEPT !.pc = "rotate", !.i = c.maxBackups]
            ELSE [c EXCEPT !.pc = "backupCopy"]]
       /\ obs' = [obs EXCEPT ![p] = Saw(o, code)]
  /\ UNCHANGED <<reader, retry, query, scannerVars, files, dirs, calls, config, hist>>

Rotate_NoCatch(p) ==
  LET c == call[p] o == obs[p]
      older == BackupName(c.normalized, c.i)
      newer == BackupName(c.normalized, c.i + 1)
  IN
  /\ c.pc = "rotate"
  /\ \E r \in (IF c.i = c.maxBackups THEN FsUnlink(files, older)
                ELSE FsRename(files, dirs, older, newer)) :
       /\ files' = r.files
       /\ obs' = [obs EXCEPT ![p] = Saw(o, r.code)]
       /\ call' = [call EXCEPT ![p] =
            IF c.i # c.maxBackups /\ r.code # "ok" THEN CatchEntry(c)
            ELSE IF c.i - 1 >= 1 THEN [c EXCEPT !.i = c.i - 1]
            ELSE [c EXCEPT !.pc = "backupCopy", !.i = 0]]
  /\ UNCHANGED <<reader, retry, query, scannerVars, dirs, calls, config, hist>>

\* createBackup, lines 176-188: one iteration of the rotation loop
Rotate(p) ==
  LET c == call[p] o == obs[p]
      older == BackupName(c.normalized, c.i)
      newer == BackupName(c.normalized, c.i + 1)
  IN
  /\ c.pc = "rotate"
  /\ \E r \in (IF c.i = c.maxBackups THEN FsUnlink(files, older)
                ELSE FsRename(files, dirs, older, newer)) :
       /\ files' = r.files
       /\ obs' = [obs EXCEPT ![p] = Saw(o, r.code)]
  /\ call' = [call EXCEPT ![p] =
       IF c.i - 1 >= 1 THEN [c EXCEPT !.i = c.i - 1]
       ELSE [c EXCEPT !.pc = "backupCopy", !.i = 0]]
  /\ UNCHANGED <<reader, retry, query, scannerVars, dirs, calls, config, hist>>

\* createBackup, lines 190-193: await fs.copyFile(filePath, backupPath),
\* not wrapped in withRetry; line 92 assigns backupPath only when it returns
BackupCopy(p) ==
  LET c == call[p] o == obs[p]
      bak == BackupName(c.normalized, 1)
  IN
  /\ c.pc = "backupCopy"
  /\ \E r \in FsCopyFile(files, dirs, c.normalized, bak) :
       /\ files' = r.files
       /\ IF r.code = "ok"
          THEN /\ call' = [call EXCEPT ![p] =
                    [c EXCEPT !.pc = "copyTarget", !.attempt = 0, !.backupPath = bak]]
               /\ obs' = [obs EXCEPT ![p] = [Saw(o, r.code) EXCEPT !.backupMade = TRUE]]
          ELSE /\ call' = [call EXCEPT ![p] = CatchEntry(c)]
               /\ obs' = [obs EXCEPT ![p] = Failed([o EXCEPT !.lockRun = 0], "backupCopy", r.code)]
  /\ UNCHANGED <<reader, retry, query, scannerVars, dirs, calls, config, hist>>

\* line 96: one attempt of copyWithRetry(tmpPath, normalized)
CopyTarget(p) ==
  LET c == call[p] o == obs[p] IN
  /\ c.pc = "copyTarget"
  /\ \E r \in FsCopyFile(files, dirs, c.tmpPath, c.normalized) :
       LET d == RetryDecision(c.attempt, r.code) IN
       /\ files' = r.files
       /\ CASE d = "return" ->
                 /\ call' = [call EXCEPT ![p] = [c EXCEPT !.pc = "cleanup", !.attempt = 0]]
                 /\ obs' = [obs EXCEPT ![p] = [Saw(o, r.code) EXCEPT !.lockRun = 0]]
            [] d = "retry" ->
                 /\ call' = [call EXCEPT ![p] = [c EXCEPT !.attempt = c.attempt + 1]]
                 /\ obs' = [obs EXCEPT ![p] =
                      [Saw(o, r.code) EXCEPT !.lockRun = o.lockRun + 1]]
            [] OTHER ->
                 /\ call' = [call EXCEPT ![p] = CatchEntry(c)]
                 /\ obs' = [obs EXCEPT ![p] = Failed(o, "copyTarget", r.code)]
  /\ UNCHANGED <<reader, retry, query, scannerVars, dirs, calls, config, hist>>

\* lines 99-101: await deleteQuietly(tmpPath); return {success: true, backupPath}
Cleanup(p) ==
  LET c == call[p] o == obs[p] IN
  /\ c.pc = "cleanup"
  /\ \E r \in FsUnlink(files, c.tmpPath) :
       /\ files' = r.files
       /\ obs' = [obs EXCEPT ![p] =
            [Saw(o, r.code) EXCEPT !.unlinkFailed = (r.code = "EBUSY")]]
       /\ hist' = HistOnReturn(hist, c, Saw(o, r.code), TRUE)
  /\ call' = [call EXCEPT ![p] =
       [c EXCEPT !.pc = "done",
                 !.result = [success |-> TRUE, error |-> "undefined",
                             backupPath |-> c.backupPath]]]
  /\ UNCHANGED <<reader, retry, query, scannerVars, dirs, calls, config>>

RollbackSource_tmp(c) == c.tmpPath

\* line 106: the rollback copies the backup made by this call
RollbackSource(c) == c.backupPath

Rollback_NoCatch(p) ==
  LET c == call[p] o == obs[p] IN
  /\ c.pc = "rollback"
  /\ \E r \in FsCopyFile(files, dirs, RollbackSource(c), c.normalized) :
       LET d == RetryDecision(c.attempt, r.code) IN
       /\ files' = r.files
       /\ CASE d = "return" ->
                 /\ call' = [call EXCEPT ![p] = [c EXCEPT !.pc = "catchCleanup", !.attempt = 0]]
                 /\ obs' = [obs EXCEPT ![p] = [Saw(o, r.code) EXCEPT !.rollback = "ok"]]
            [] d = "retry" ->
                 /\ call' = [call EXCEPT ![p] = [c EXCEPT !.attempt = c.attempt + 1]]
                 /\ obs' = [obs EXCEPT ![p] = Saw(o, r.code)]
            [] OTHER ->
                 /\ call' = [call EXCEPT ![p] = [c EXCEPT !.pc = "rejected"]]
                 /\ obs' = [obs EXCEPT ![p] = [Saw(o, r.code) EXCEPT !.rollback = "failed"]]
  /\ UNCHANGED <<reader, retry, query, scannerVars, dirs, calls, config, hist>>

\* lines 104-110: one attempt of copyWithRetry(backupPath, normalized) inside
\* its own try/catch
Rollback(p) ==
  LET c == call[p] o == obs[p] IN
  /\ c.pc = "rollback"
  /\ \E r \in FsCopyFile(files, dirs, RollbackSource(c), c.normalized) :
       LET d == RetryDecision(c.attempt, r.code) IN
       /\ files' = r.files
       /\ CASE d = "return" ->
                 /\ call' = [call EXCEPT ![p] = [c EXCEPT !.pc = "catchCleanup", !.attempt = 0]]
                 /\ obs' = [obs EXCEPT ![p] = [Saw(o, r.code) EXCEPT !.rollback = "ok"]]
            [] d = "retry" ->
                 /\ call' = [call EXCEPT ![p] = [c EXCEPT !.attempt = c.attempt + 1]]
                 /\ obs' = [obs EXCEPT ![p] = Saw(o, r.code)]
            [] OTHER ->
                 /\ call' = [call EXCEPT ![p] = [c EXCEPT !.pc = "catchCleanup", !.attempt = 0]]
                 /\ obs' = [obs EXCEPT ![p] = [Saw(o, r.code) EXCEPT !.rollback = "failed"]]
  /\ UNCHANGED <<reader, retry, query, scannerVars, dirs, calls, config, hist>>

CatchCleanup_NoBackupPath(p) ==
  LET c == call[p] o == obs[p] IN
  /\ c.pc = "catchCleanup"
  /\ \E r \in FsUnlink(files, c.tmpPath) :
       /\ files' = r.files
       /\ obs' = [obs EXCEPT ![p] = [Saw(o, r.code) EXCEPT !.unlinkFailed = (r.code = "EBUSY")]]
  /\ call' = [call EXCEPT ![p] =
       [c EXCEPT !.pc = "done",
                 !.result = [success |-> FALSE, error |-> "Write failed",
                             backupPath |-> None]]]
  /\ hist' = HistOnReturn(hist, c, o, FALSE)
  /\ UNCHANGED <<reader, retry, query, scannerVars, dirs, calls, config>>

CatchCleanup_NoDelete(p) ==
  LET c == call[p] o == obs[p] IN
  /\ c.pc = "catchCleanup"
  /\ call' = [call EXCEPT ![p] =
       [c EXCEPT !.pc = "done",
                 !.result = [success |-> FALSE, error |-> "Write failed",
                             backupPath |-> c.backupPath]]]
  /\ hist' = HistOnReturn(hist, c, o, FALSE)
  /\ UNCHANGED <<reader, retry, query, scannerVars, files, dirs, calls, config, obs>>

\* lines 113-116: await deleteQuietly(tmpPath); return {success: false, ...}
CatchCleanup(p) ==
  LET c == call[p] o == obs[p] IN
  /\ c.pc = "catchCleanup"
  /\ \E r \in FsUnlink(files, c.tmpPath) :
       /\ files' = r.files
       /\ obs' = [obs EXCEPT ![p] = [Saw(o, r.code) EXCEPT !.unlinkFailed = (r.code = "EBUSY")]]
  /\ call' = [call EXCEPT ![p] =
       [c EXCEPT !.pc = "done",
                 !.result = [success |-> FALSE, error |-> "Write failed",
                             backupPath |-> c.backupPath]]]
  /\ hist' = HistOnReturn(hist, c, o, FALSE)
  /\ UNCHANGED <<reader, retry, query, scannerVars, dirs, calls, config>>

Next ==
  \E p \in Writers :
    \/ \E filePath \in PathArgs, backup \in BackupArgs :
         Start(p, filePath, NewContent(calls + 1), backup)
    \/ Mkdir(p)
    \/ WriteTmp(p)
    \/ BackupAccess(p)
    \/ Rotate(p)
    \/ BackupCopy(p)
    \/ CopyTarget(p)
    \/ Cleanup(p)
    \/ Rollback(p)
    \/ CatchCleanup(p)

Spec == Init /\ [][Next]_vars

\* --------------------------------------------------------------- withRetry
\* How one invocation of the wrapped operation can end: its value, an fs error
\* with a code, or an error without a code
OpOutcomes == {"ok", "EACCES", "EBUSY", "EPERM", "ENOENT", "ENOSPC", "nocode"}

\* sleep(RETRY_DELAYS[attempt]), attempt counted from 0; past the end of the
\* array the delay is undefined and the timer fires at once
DelayOf(attempt) ==
  IF attempt + 1 \in DOMAIN RETRY_DELAYS THEN RETRY_DELAYS[attempt + 1] ELSE 0

\* withRetry(fn) is entered: attempt = 0
RetryCall ==
  /\ retry.pc = "idle"
  /\ retry' = [IdleRetry EXCEPT !.pc = "invoke"]
  /\ UNCHANGED <<reader, files, dirs, call, calls, config, obs, hist, query, scannerVars>>

\* lines 125-135: return await fn(), and the catch block's decision; the
\* error of invocation k is [code, id |-> k], the value of invocation k is k
RetryInvoke(code) ==
  LET k == retry.invoked + 1
      err == [code |-> code, id |-> k]
      d == RetryDecision(retry.attempt, code)
  IN
  /\ retry.pc = "invoke"
  /\ retry' =
       CASE d = "return" ->
              [retry EXCEPT !.pc = "returned", !.invoked = k, !.value = k,
                            !.errors = IF code = "ok" THEN @ ELSE Append(@, err)]
         [] d = "retry" ->
              [retry EXCEPT !.pc = "sleep", !.invoked = k, !.errors = Append(@, err)]
         [] OTHER ->
              [retry EXCEPT !.pc = "thrown", !.invoked = k, !.errors = Append(@, err),
                            !.thrown = <<err>>]
  /\ UNCHANGED <<reader, files, dirs, call, calls, config, obs, hist, query, scannerVars>>

\* lines 133-134 and 124: await sleep(RETRY_DELAYS[attempt]); continue;
\* attempt++ and the loop condition; line 139 when the loop ends
RetrySleep ==
  /\ retry.pc = "sleep"
  /\ retry' =
       IF retry.attempt + 1 <= Len(RETRY_DELAYS)
       THEN [retry EXCEPT !.pc = "invoke", !.attempt = @ + 1,
                          !.slept = Append(@, DelayOf(retry.attempt))]
       ELSE [retry EXCEPT !.pc = "thrown", !.attempt = @ + 1,
                          !.slept = Append(@, DelayOf(retry.attempt)),
                          !.thrown = <<[code |-> "exhausted", id |-> 0]>>]
  /\ UNCHANGED <<reader, files, dirs, call, calls, config, obs, hist, query, scannerVars>>

\* withRetry on its own: nothing else runs
RetryInit ==
  /\ files = {}
  /\ dirs = {<<"/">>}
  /\ hist = InitHist
  /\ WriterIdle
  /\ config = [maxBackups |-> <<>>]
  /\ retry = IdleRetry
  /\ query = NoQuery
  /\ ScannerIdle
  /\ reader = NoRead
  /\ sobs = NoSobs

RetryNext ==
  \/ RetryCall
  \/ \E code \in OpOutcomes : RetryInvoke(code)
  \/ RetrySleep

RetrySpec == RetryInit /\ [][RetryNext]_vars

\* the wrapped operation settles and the timer of sleep() fires
RetryLiveSpec == RetrySpec /\ WF_vars(RetryNext)

\* ----------------------------------------------------------------- scanner
\* config.hot_paths and config.scanner_cache_ttl: one always-scan directory,
\* one recency rule, one system file
always_scan == << <<"t">> >>
recency_scan == << [path |-> <<"e">>, max_age_days |-> 1] >>
system_files == << <<"s", "/", "c", ".", "m", "d">> >>
scanner_cache_ttl == 60

\* the vaultRoot arguments of scanVault
OtherRootArg == <<"/", "u">>
RootArgs == {VaultRootArg, OtherRootArg}

MdExt == <<".", "m", "d">>
Under(dir, name) == dir \o <<"/">> \o name

\* the mock vault: an always-scan directory with a text file and a
\* subdirectory named like a note, a recency directory with a file exactly
\* max_age_days old at T0 (older after that), the system file, an excluded
\* directory; a second vault with one note and no system file
V_Root == normalizePath(VaultRootArg)
U_Root == normalizePath(OtherRootArg)
D_Always == Under(V_Root, <<"t">>)
D_Sub == Under(D_Always, <<"d", ".", "m", "d">>)
D_Recency == Under(V_Root, <<"e">>)
D_System == Under(V_Root, <<"s">>)
D_Excluded == Under(V_Root, <<"x">>)
D_Other == Under(U_Root, <<"t">>)
F_Text == Under(D_Always, <<"n", ".", "t", "x", "t">>)
F_Deep == Under(D_Sub, <<"k", ".", "m", "d">>)
F_Edge == Under(D_Recency, <<"g", ".", "m", "d">>)
F_Sys == Under(D_System, <<"c", ".", "m", "d">>)
F_Excluded == Under(D_Excluded, <<"r", ".", "m", "d">>)
F_Other == Under(D_Other, <<"z", ".", "m", "d">>)

VaultDirs ==
  {<<"/">>, V_Root, D_Always, D_Sub, D_Recency, D_System, D_Excluded, U_Root, D_Other}
VaultFiles ==
  {<<F_Text, "txt">>, <<F_Deep, "deep">>, <<F_Edge, "edge">>,
   <<F_Sys, "sys">>, <<F_Excluded, "excl">>, <<F_Other, "other">>}

\* stat.mtime
Mtime(path) ==
  IF path = F_Edge THEN T0 - DayMs ELSE T0

RECURSIVE SetToSeq(_)
SetToSeq(S) ==
  IF S = {} THEN <<>>
  ELSE LET x == CHOOSE y \in S : TRUE IN <<x>> \o SetToSeq(S \ {x})

\* fs.readdir(dir, {withFileTypes: true})
FsReaddir(f, d, dir) ==
  IF dir \notin d THEN {[entries |-> {}, code |-> "ENOENT"]}
  ELSE {[entries |->
           {[name |-> basename(e[1]), isFile |-> TRUE] : e \in {x \in f : dirname(x[1]) = dir}}
           \cup {[name |-> basename(x), isFile |-> FALSE] :
                   x \in {y \in d : y # dir /\ dirname(y) = dir}},
         code |-> "ok"],
        [entries |-> {}, code |-> "EBUSY"]}

\* fs.stat(path)
FsStat(f, d, path) ==
  IF Exists(f, path) \/ path \in d
  THEN {[mtime |-> Mtime(path), code |-> "ok"], [mtime |-> 0, code |-> "EBUSY"]}
  ELSE {[mtime |-> 0, code |-> "ENOENT"]}

\* the three loops of scanVault, lines 69-88, as the list of their iterations
Jobs(root, now) ==
  [i \in 1..Len(always_scan) |->
     [kind |-> "dir", path |-> Under(root, always_scan[i]), source |-> "always",
      cutoff |-> <<>>]]
  \o [i \in 1..Len(recency_scan) |->
     [kind |-> "dir", path |-> Under(root, recency_scan[i].path), source |-> "recency",
      cutoff |-> <<now - recency_scan[i].max_age_days * DayMs>>]]
  \o [i \in 1..Len(system_files) |->
     [kind |-> "file", path |-> Under(root, system_files[i]), source |-> "system",
      cutoff |-> <<>>]]

CacheHit_Inclusive(cr, ct, now) == cr # <<>> /\ now - ct <= scanner_cache_ttl * 1000

\* line 60
CacheHit(cr, ct, now) == cr # <<>> /\ now - ct < scanner_cache_ttl * 1000

Listed_MdAnywhere(entry) ==
  /\ entry.isFile
  /\ \E k \in 1..Len(entry.name) :
       k + Len(MdExt) - 1 <= Len(entry.name)
         /\ SubSeq(entry.name, k, k + Len(MdExt) - 1) = MdExt

Listed_AnyKind(entry) == endsWith(entry.name, MdExt)

\* line 131
Listed(entry) == entry.isFile /\ endsWith(entry.name, MdExt)

\* line 139
TooOld(mtime, cutoff) == cutoff # <<>> /\ mtime < cutoff[1]

\* lines 141-148 and 172-179 (name, mtime and size are left out)
VaultFile(fullPath, root, source) ==
  [path |-> fullPath,
   relativePath |-> SubSeq(fullPath, Len(root) + 2, Len(fullPath)),
   source |-> source]

\* history: a write of Target has returned success:true and none is running
WriteCompleted ==
  \E p \in Writers :
    /\ call[p].pc = "done" /\ call[p].result.success /\ call[p].normalized = Target

\* lines 58-66: the cache check, the locals of a fresh scan
ScanStart(s, vaultRoot) ==
  LET now == clock
      o == [sobs EXCEPT !.scans = @ + 1, !.invalidated = FALSE,
              !.roots = @ \cup {normalizePath(vaultRoot)},
              !.of[s] = [NoScanObs EXCEPT !.startCache = cachedResult,
                                          !.startCacheTime = cacheTime,
                                          !.afterInvalidate = sobs.invalidated,
                                          !.afterWrite = WriteCompleted,
                                          !.sinceWrite = sobs.sinceWrite]]
  IN
  /\ scan[s].pc \in {"idle", "done"}
  /\ sobs.scans < MaxScans
  /\ sobs' = o
  /\ IF CacheHit(cachedResult, cacheTime, now)
     THEN scan' = [scan EXCEPT ![s] =
            [IdleScan EXCEPT !.pc = "done", !.now = now,
               !.root = normalizePath(vaultRoot),
               !.result = <<[cachedResult[1] EXCEPT !.cachedAt = <<cacheTime>>]>>]]
     ELSE scan' = [scan EXCEPT ![s] =
            [IdleScan EXCEPT !.pc = "readdir", !.now = now, !.j = 1,
               !.root = normalizePath(vaultRoot)]]
  /\ UNCHANGED <<reader, files, dirs, call, calls, config, obs, hist, retry, query,
                 cachedResult, cacheTime, clock>>

\* the current iteration of sc is over: the next one, or lines 90-105
StepDone(s, sc) ==
  LET jobs == Jobs(sc.root, sc.now) IN
  IF sc.j < Len(jobs)
  THEN /\ scan' = [scan EXCEPT ![s] =
            [sc EXCEPT !.j = sc.j + 1, !.pending = <<>>,
               !.pc = IF jobs[sc.j + 1].kind = "dir" THEN "readdir" ELSE "stat1"]]
       /\ UNCHANGED <<reader, cachedResult, cacheTime>>
  ELSE LET result == [files |-> sc.files, scannedCount |-> Len(sc.files),
                      totalDirs |-> Len(always_scan) + Len(recency_scan),
                      cachedAt |-> <<>>]
       IN /\ scan' = [scan EXCEPT ![s] =
               [sc EXCEPT !.pc = "done", !.pending = <<>>, !.result = <<result>>]]
          /\ cachedResult' = <<result>>
          /\ cacheTime' = sc.now

\* a name the writer gives to its temp file or to a backup: `${target}.tmp`,
\* `${base}${ext}.bak.${i}` (safe-write.ts, lines 78 and 177)
WriterArtifact(name) ==
  \/ endsWith(name, TmpSuffix)
  \/ \E i \in 0..9 : endsWith(name, BakInfix \o <<Digit(i)>>)

\* a filesystem call of scan s ended with `code` on `path` (history); a fault
\* is injected only while the budget lasts
Injectable(code) == IsFault(code) => sobs.faults > 0
ScanSaw(s, path, code) ==
  [sobs EXCEPT !.faults = IF IsFault(code) THEN @ - 1 ELSE @,
               !.of[s].touchedFs = TRUE,
               !.of[s].failed = IF code = "ok" THEN @ ELSE @ \cup {path}]

ReaddirFailed_Rethrow(sc) == [sc EXCEPT !.pc = "rejected"]

\* lines 154-156: the listing failed, the directory gives no files
ReaddirFailed(sc) == [sc EXCEPT !.pending = <<>>]

\* scanDirectory, lines 127-131: await fs.readdir(dirPath); the entries that
\* pass the filter of line 131 wait for their stat
ScanReaddir(s) ==
  LET sc == scan[s]
      job == Jobs(sc.root, sc.now)[sc.j]
  IN
  /\ sc.pc = "readdir"
  /\ \E r \in FsReaddir(files, dirs, job.path) :
       /\ Injectable(r.code)
       /\ sobs' = [ScanSaw(s, job.path, r.code) EXCEPT !.of[s].artifacts =
                     @ \/ \E e \in r.entries : WriterArtifact(e.name)]
       /\ LET names == SetToSeq({e.name : e \in {x \in r.entries : Listed(x)}})
              sc1 == IF r.code = "ok" THEN [sc EXCEPT !.pending = names]
                     ELSE ReaddirFailed(sc)
          IN IF sc1.pc = "rejected"
             THEN scan' = [scan EXCEPT ![s] = sc1] /\ UNCHANGED <<reader, cachedResult, cacheTime>>
             ELSE IF sc1.pending = <<>> THEN StepDone(s, sc1)
             ELSE /\ scan' = [scan EXCEPT ![s] = [sc1 EXCEPT !.pc = "stat"]]
                  /\ UNCHANGED <<reader, cachedResult, cacheTime>>
  /\ UNCHANGED <<reader, files, dirs, call, calls, config, obs, hist, retry, query, clock>>

\* scanDirectory, lines 133-152: await fs.stat(fullPath) of the next entry
ScanStat(s) ==
  LET sc == scan[s]
      job == Jobs(sc.root, sc.now)[sc.j]
      fullPath == normalizePath(pathJoin(job.path, Head(sc.pending)))
  IN
  /\ sc.pc = "stat"
  /\ \E r \in FsStat(files, dirs, fullPath) :
       /\ Injectable(r.code)
       /\ sobs' = ScanSaw(s, fullPath, r.code)
       /\ LET keep == r.code = "ok" /\ ~TooOld(r.mtime, job.cutoff)
              sc1 == [sc EXCEPT !.pending = Tail(@),
                        !.files = IF keep
                                  THEN Append(@, VaultFile(fullPath, sc.root, job.source))
                                  ELSE @]
          IN IF sc1.pending = <<>> THEN StepDone(s, sc1)
             ELSE scan' = [scan EXCEPT ![s] = sc1] /\ UNCHANGED <<reader, cachedResult, cacheTime>>
  /\ UNCHANGED <<reader, files, dirs, call, calls, config, obs, hist, retry, query, clock>>

\* scanSingleFile, lines 169-182: await fs.stat(normalized) of a system file
ScanSingleFile(s) ==
  LET sc == scan[s]
      job == Jobs(sc.root, sc.now)[sc.j]
      normalized == normalizePath(job.path)
  IN
  /\ sc.pc = "stat1"
  /\ \E r \in FsStat(files, dirs, normalized) :
       /\ Injectable(r.code)
       /\ sobs' = ScanSaw(s, normalized, r.code)
       /\ StepDone(s, [sc EXCEPT !.files =
            IF r.code = "ok" THEN Append(@, VaultFile(normalized, sc.root, job.source))
            ELSE @])
  /\ UNCHANGED <<reader, files, dirs, call, calls, config, obs, hist, retry, query, clock>>

\* lines 111-114
InvalidateCache ==
  /\ cachedResult' = <<>>
  /\ cacheTime' = 0
  /\ sobs' = [sobs EXCEPT !.invalidated = TRUE]
  /\ UNCHANGED <<reader, files, dirs, call, calls, config, obs, hist, retry, query, scan, clock>>

\* time passes: Date.now() grows by half a TTL
TickMs == scanner_cache_ttl * 500
Tick ==
  /\ clock < T0 + MaxTicks * TickMs
  /\ clock' = clock + TickMs
  /\ sobs' = [sobs EXCEPT !.sinceWrite = IF WriteCompleted THEN @ + TickMs ELSE 0]
  /\ UNCHANGED <<reader, files, dirs, call, calls, config, obs, hist, retry, query, scan,
                 cachedResult, cacheTime>>

\* the mock vault with or without the note a.md, nothing running, `n` fs
\* faults to come
MockVault(n) ==
  /\ dirs = VaultDirs
  /\ \/ files = VaultFiles
     \/ files = VaultFiles \cup {<<Target, "v0">>}
  /\ hist = InitHist
  /\ WriterIdle
  /\ config = [maxBackups |-> <<>>]
  /\ retry = IdleRetry
  /\ query = NoQuery
  /\ ScannerIdle
  /\ reader = NoRead
  /\ sobs = [NoSobs EXCEPT !.faults = n]

ScanStep(s) ==
  \/ \E vaultRoot \in RootArgs : ScanStart(s, vaultRoot)
  \/ ScanReaddir(s)
  \/ ScanStat(s)
  \/ ScanSingleFile(s)

\* The scanner on a quiet, healthy filesystem: overlapping scanVault calls,
\* invalidateCache, the clock.
ScanInit == MockVault(0)

ScanNext ==
  \/ \E s \in Scanners : ScanStep(s)
  \/ InvalidateCache
  \/ Tick

ScanSpec == ScanInit /\ [][ScanNext]_vars

\* The scanner on a filesystem whose listings and stats can fail: one
\* scanVault call at a time.
FaultyInit == MockVault(MaxFaults)

FaultyNext ==
  \/ ScanStep(1)
  \/ InvalidateCache
  \/ Tick

FaultySpec == FaultyInit /\ [][FaultyNext]_vars

\* ------------------------------------------------------------------ claims
Returned(p) == call[p].pc = "done"
Accepted(p) == isWithinRoot(call[p].normalized, VaultRootArg)
TargetNow(p) == ContentOf(files, call[p].normalized)
TargetBefore(p) == ContentOf(obs[p].preFiles, call[p].normalized)
Quiescent == \A p \in Procs : call[p].pc \in {"idle", "done"}

EffectiveN == IF config.maxBackups = <<>> THEN MAX_BACKUPS ELSE config.maxBackups[1]
BackupSlots == 1..(MAX_BACKUPS + 1)
TargetBak == [i \in BackupSlots |-> BackupName(Target, i)]
BackupCount == Cardinality({i \in BackupSlots : Exists(files, TargetBak[i])})
Min(a, b) == IF a <= b THEN a ELSE b

\* the location of a path, segment by segment, lies outside the vault root
SegsOf(path) == NormSegs(Split(path), <<>>)
LocatedOutside(path) ==
  LET r == SegsOf(VaultRootArg)
      s == SegsOf(path)
  IN ~(Len(s) >= Len(r) /\ SubSeq(s, 1, Len(r)) = r)

\* C1: all-or-nothing write: a call on a path inside the vault root that
\* returned success:true left the target holding exactly `content`, and one
\* that returned success:false left the target's content (or absence) as it
\* was before the call.
C1_AllOrNothing ==
  \A p \in Procs :
    (Returned(p) /\ Accepted(p)) =>
      IF call[p].result.success
      THEN TargetNow(p) = call[p].content
      ELSE TargetNow(p) = TargetBefore(p)

\* C2: a call whose path normalizes to a location outside the vault root
\* returns success:false with 'Path traversal blocked' and performs no
\* filesystem operation: no file and no directory is created or changed.
C2_TraversalBlockedBeforeIO ==
  \A p \in Procs :
    (call[p].pc # "idle" /\ LocatedOutside(call[p].normalized)) =>
      /\ Returned(p)
      /\ call[p].result.success = FALSE
      /\ call[p].result.error = "Path traversal blocked"
      /\ ~obs[p].didIO
      /\ files = obs[p].preFiles
      /\ dirs = obs[p].preDirs

C2_Witness ==
  \E p \in Procs :
    /\ Returned(p)
    /\ call[p].normalized = normalizePath(P_Sibling)
    /\ call[p].result.error = "Path traversal blocked"
    /\ files # {}

\* C3: round trip: a call that returned success:true on a path that did not
\* exist before left a file there whose content is the content argument.
C3_RoundTrip ==
  \A p \in Procs :
    (Returned(p) /\ call[p].result.success
       /\ ~Exists(obs[p].preFiles, call[p].normalized)) =>
      /\ Exists(files, call[p].normalized)
      /\ Read(files, call[p].normalized) = call[p].content

C3_Witness ==
  \E p \in Procs :
    /\ Returned(p) /\ call[p].result.success
    /\ ~Exists(obs[p].preFiles, call[p].normalized)
    /\ call[p].dir \notin obs[p].preDirs
    /\ Read(files, call[p].normalized) = call[p].content

C5_BackupChainAfterKWrites ==
  (Quiescent /\ hist.fresh /\ hist.clean /\ Len(hist.written) >= 1) =>
    LET k == Len(hist.written)
        m == Min(k - 1, EffectiveN)
    IN /\ BackupCount = m
       /\ \A i \in 1..m : ContentOf(files, TargetBak[i]) = hist.written[k - i]

\* C6: in every reachable state the number of existing <target>.bak.n files
\* does not exceed the maxBackups value N passed to the writes.
C6_BoundedBackups == BackupCount <= EffectiveN

\* C7: when the most recent successful write was a backup-enabled call that
\* overwrote an existing file, then after every call (successful or failed)
\* <target>.bak.1 holds the content that this write overwrote.
C7_Bak1HoldsLastOverwritten ==
  (Quiescent /\ hist.lastBacked) =>
    ContentOf(files, TargetBak[1]) = hist.lastOverwrote

\* C8 as claimed: after any call has returned, no <target>.tmp exists.
C8_NoTmpEver ==
  \A p \in Procs :
    Returned(p) => ~Exists(files, call[p].normalized \o TmpSuffix)

\* C8 amended: after a call has returned, no <target>.tmp exists unless the
\* call's final unlink of the temp file failed (deleteQuietly ignores it).
C8_NoTmpUnlessUnlinkFailed ==
  \A p \in Procs :
    (Returned(p) /\ ~obs[p].unlinkFailed) =>
      ~Exists(files, call[p].normalized \o TmpSuffix)

C8_Witness ==
  \E p \in Procs :
    /\ Returned(p) /\ ~call[p].result.success
    /\ obs[p].failOp = "copyTarget"
    /\ ~obs[p].unlinkFailed
    /\ ~Exists(files, call[p].tmpPath)

\* C9: safeWriteFile never rejects, whatever its filesystem operations do;
\* a result with success:false carries an error string and a result with
\* success:true carries none.
C9_NeverRejects ==
  \A p \in Procs :
    /\ call[p].pc # "rejected"
    /\ Returned(p) =>
         IF call[p].result.success
         THEN call[p].result.error = "undefined"
         ELSE call[p].result.error \in {"Path traversal blocked", "Write failed"}

C9_Witness ==
  \E p \in Procs :
    /\ Returned(p) /\ ~call[p].result.success
    /\ obs[p].rollback = "failed"
    /\ obs[p].unlinkFailed
    /\ call[p].result.error = "Write failed"

\* C10: a lock error (EACCES, EBUSY, EPERM) of the temp write, the backup
\* copy or the copy to the target fails the call only after that operation
\* was tried through the whole backoff schedule (5 consecutive lock errors).
C10_LockFailsOnlyAfterRetries ==
  \A p \in Procs :
    (Returned(p) /\ ~call[p].result.success /\ IsLock(obs[p].failCode)
       /\ obs[p].failOp \in {"writeTmp", "backupCopy", "copyTarget"}) =>
      obs[p].failLocks = Len(RETRY_DELAYS) + 1

RECURSIVE SumSeq(_)
SumSeq(q) == IF q = <<>> THEN 0 ELSE Head(q) + SumSeq(Tail(q))

\* C11: withRetry invokes the operation again, or sleeps, only after a failure
\* whose code is EACCES, EBUSY or EPERM; a failure with any other code, or
\* without a code, is rethrown as the same error right after that attempt:
\* no sleep follows it and the operation is not invoked again.
C11_RetryOnlyRetryable ==
  \A i \in 1..Len(retry.errors) :
    LET e == retry.errors[i] IN
    /\ (retry.invoked > i \/ Len(retry.slept) >= i)
          => e.code \in {"EACCES", "EBUSY", "EPERM"}
    /\ e.code \notin {"EACCES", "EBUSY", "EPERM"}
          => /\ retry.pc = "thrown"
             /\ retry.thrown = <<e>>
             /\ retry.invoked = i
             /\ Len(retry.slept) = i - 1

\* a disk-full error on the third attempt, after two lock errors
C11_Witness ==
  /\ retry.pc = "thrown"
  /\ retry.invoked = 3
  /\ retry.thrown = <<[code |-> "ENOSPC", id |-> 3]>>
  /\ retry.slept = <<200, 400>>

C12_Bounded ==
  /\ retry.invoked <= 5
  /\ Len(retry.slept) <= 4
  /\ retry.slept = SubSeq(<<200, 400, 800, 1600>>, 1, Len(retry.slept))
  /\ SumSeq(retry.slept) <= 3000
  /\ retry.pc = "invoke" => Len(retry.slept) = retry.invoked
  /\ retry.pc \in {"sleep", "returned", "thrown"}
       => Len(retry.slept) = retry.invoked - 1
  /\ retry.pc = "returned"
       => /\ retry.value = retry.invoked
          /\ Len(retry.errors) = retry.invoked - 1
  /\ retry.pc = "thrown"
       => /\ Len(retry.errors) = retry.invoked
          /\ retry.thrown = <<retry.errors[retry.invoked]>>

C13_FailureCarriesBackup ==
  \A p \in Procs :
    (Returned(p) /\ obs[p].backupMade /\ ~call[p].result.success) =>
      LET bak == call[p].normalized \o <<".", "b", "a", "k", ".", "1">> IN
      /\ call[p].result.backupPath = bak
      /\ Exists(files, bak)
      /\ Read(files, bak) = TargetBefore(p)

\* the copy to the target failed and the rollback copy failed too
C13_Witness ==
  \E p \in Procs :
    /\ Returned(p) /\ obs[p].backupMade /\ ~call[p].result.success
    /\ obs[p].rollback = "failed"
    /\ TargetNow(p) # TargetBefore(p)

\* ------------------------------------------------------------ isWithinRoot
\* the characters of the path arguments: separator, dot, a name in both
\* cases, another name
PathAlphabet == {"/", ".", "v", "V", "x"}
PathInputs == UNION {[1..n -> PathAlphabet] : n \in 0..MaxPathLen} \cup PathArgs
RootInputs ==
  {<<"/", "v">>, <<"/", "v", "/">>, <<"/", "V">>, <<"/">>, <<"v">>,
   <<"/", "v", "/", "x">>, <<"/", "v", "/", ".">>}

\* isWithinRoot(p, r) is about to be called
PathInit ==
  /\ files = {}
  /\ dirs = {<<"/">>}
  /\ hist = InitHist
  /\ WriterIdle
  /\ config = [maxBackups |-> <<>>]
  /\ retry = IdleRetry
  /\ query \in [pc : {"asked"}, p : PathInputs, r : RootInputs, answer : {FALSE}]
  /\ ScannerIdle
  /\ reader = NoRead
  /\ sobs = NoSobs

\* paths.ts, lines 30-35
IsWithinRootCall ==
  /\ query.pc = "asked"
  /\ query' = [query EXCEPT !.pc = "answered", !.answer = isWithinRoot(query.p, query.r)]
  /\ UNCHANGED <<reader, files, dirs, call, calls, config, obs, hist, retry, scannerVars>>

PathNext == IsWithinRootCall

PathSpec == PathInit /\ [][PathNext]_vars

\* -------------------------------------------------------------- write path
\* vault.ts, lines 48-57, called by createTask (tasks.ts, lines 161 and 179)
\* with `${root}/TaskNotes/${id}.md`: safeWriteFile(filePath, content,
\* {vaultRoot: root}), no backup and no maxBackups option
WriteVaultFile(p) == Start(p, P_Target, NewContent(calls + 1), <<>>)

\* The write path next to the scanner: a task note is created or rewritten
\* in the mock vault while scanVault calls come and go and time passes.
SysInit ==
  /\ dirs = VaultDirs
  /\ \/ files = VaultFiles /\ hist = InitHist
     \/ /\ files = VaultFiles \cup {<<Target, "v0">>}
        /\ hist = [InitHist EXCEPT !.fresh = FALSE]
  /\ call = [p \in Procs |-> IdleCall]
  /\ calls = MaxCalls - 1
  /\ obs = [p \in Procs |-> NoObs]
  /\ config = [maxBackups |-> <<>>]
  /\ retry = IdleRetry
  /\ query = NoQuery
  /\ ScannerIdle
  /\ reader = NoRead
  /\ sobs = NoSobs

SysNext ==
  \/ \E p \in Writers :
       \/ WriteVaultFile(p)
       \/ Mkdir(p)
       \/ WriteTmp(p)
       \/ BackupAccess(p)
       \/ Rotate(p)
       \/ BackupCopy(p)
       \/ CopyTarget(p)
       \/ Cleanup(p)
       \/ Rollback(p)
       \/ CatchCleanup(p)
  \/ ScanStep(1)
  \/ Tick

SysSpec == SysInit /\ [][SysNext]_vars

\* ---------------------------------------------------------------- rotation
\* the maxBackups option: the default, or 0..MaxSlots
RotationArgs == {<<>>} \cup {<<n>> : n \in 0..MaxSlots}
\* the content of the backup in slot i before the call
OldBackup(i) ==
  CASE i = 1 -> "b1" [] i = 2 -> "b2" [] i = 3 -> "b3" [] i = 4 -> "b4"
    [] i = 5 -> "b5" [] OTHER -> "b6"

\* One backup-enabled safeWriteFile call on an existing target whose backup
\* slots 1..maxBackups are occupied in any pattern, gaps included.
RotateInit ==
  /\ \E m \in RotationArgs :
       LET n == IF m = <<>> THEN MAX_BACKUPS ELSE m[1] IN
       /\ config = [maxBackups |-> m]
       /\ \E occupied \in SUBSET (1..n) :
            files = {<<Target, "v0">>}
                      \cup {<<BackupName(Target, i), OldBackup(i)>> : i \in occupied}
  /\ dirs = {<<"/">>, normalizePath(VaultRootArg), dirname(Target)}
  /\ hist = [InitHist EXCEPT !.fresh = FALSE]
  /\ call = [p \in Procs |-> IdleCall]
  /\ calls = MaxCalls - 1
  /\ obs = [p \in Procs |-> NoObs]
  /\ retry = IdleRetry
  /\ query = NoQuery
  /\ ScannerIdle
  /\ reader = NoRead
  /\ sobs = NoSobs

RotateNext ==
  \E p \in Writers :
    \/ Start(p, P_Target, NewContent(calls + 1), <<TRUE>>)
    \/ Mkdir(p)
    \/ WriteTmp(p)
    \/ BackupAccess(p)
    \/ Rotate(p)
    \/ BackupCopy(p)
    \/ CopyTarget(p)
    \/ Cleanup(p)
    \/ Rollback(p)
    \/ CatchCleanup(p)

RotateSpec == RotateInit /\ [][RotateNext]_vars

\* ------------------------------------------------------- concurrent writers
\* Two callers write the same note: each safeWriteFile call is suspended at
\* its awaits, where the other one runs; both pass maxBackups = MaxN.
ConcInit ==
  /\ \/ /\ files = {}
        /\ dirs = {<<"/">>, normalizePath(VaultRootArg)}
        /\ hist = InitHist
     \/ /\ files = {<<Target, "v0">>}
        /\ dirs = {<<"/">>, normalizePath(VaultRootArg), dirname(Target)}
        /\ hist = [InitHist EXCEPT !.fresh = FALSE]
  /\ WriterIdle
  /\ config = [maxBackups |-> <<MaxN>>]
  /\ retry = IdleRetry
  /\ query = NoQuery
  /\ ScannerIdle
  /\ reader = NoRead
  /\ sobs = NoSobs

ConcNext ==
  \E p \in Procs :
    \/ \E backup \in BackupArgs : Start(p, P_Target, NewContent(calls + 1), backup)
    \/ Mkdir(p)
    \/ WriteTmp(p)
    \/ BackupAccess(p)
    \/ Rotate(p)
    \/ BackupCopy(p)
    \/ CopyTarget(p)
    \/ Cleanup(p)
    \/ Rollback(p)
    \/ CatchCleanup(p)

ConcSpec == ConcInit /\ [][ConcNext]_vars

\* ------------------------------------------------------------ vault readers
\* process.env.OBSIDIAN_VAULT_PATH: not set, or the vault
EnvArgs == {<<>>, <<VaultRootArg>>}

\* the path arguments of the readers: those of the writer, a directory, an
\* existing note and a note that does not exist
F_Missing == Under(D_Always, <<"q", ".", "m", "d">>)
ReadArgs == PathArgs \cup {D_Always, F_Sys, F_Missing}

\* fs.readFile(path, "utf-8")
FsReadFile(f, d, path) ==
  IF Exists(f, path)
  THEN {[data |-> Read(f, path), code |-> "ok"], [data |-> "", code |-> "EBUSY"]}
  ELSE IF path \in d THEN {[data |-> "", code |-> "EISDIR"]}
  ELSE {[data |-> "", code |-> "ENOENT"]}

\* the common head of the three readers (lines 30-36, 73-78, 92-97):
\* normalizePath, getVaultRoot (lines 17-23), the isWithinRoot guard; the fs
\* call is issued only when the guard lets the path through
Guarded(op, filePath, pc) ==
  LET normalized == normalizePath(filePath)
      r == [NoRead EXCEPT !.op = op, !.filePath = filePath,
                          !.normalized = normalized, !.env = reader.env]
  IN
  /\ reader.pc \in {"idle", "done"}
  /\ reader' =
       IF reader.env = <<>>
       THEN [r EXCEPT !.pc = "done", !.outcome = "rejected",
                      !.error = "OBSIDIAN_VAULT_PATH not set in environment"]
       ELSE IF ~isWithinRoot(normalized, normalizePath(reader.env[1]))
       THEN [r EXCEPT !.pc = "done", !.outcome = "rejected",
                      !.error = "Path outside vault"]
       ELSE [r EXCEPT !.pc = pc]
  /\ UNCHANGED <<files, dirs, call, calls, config, obs, hist, retry, query, scannerVars>>

\* vault.ts, lines 29-43
readVaultFile(filePath) == Guarded("readVaultFile", filePath, "readFile")

\* line 42: return fs.readFile(normalized, "utf-8"): its error rejects the call
ReadFileDone ==
  /\ reader.pc = "readFile"
  /\ \E r \in FsReadFile(files, dirs, reader.normalized) :
       reader' =
         IF r.code = "ok"
         THEN [reader EXCEPT !.pc = "done", !.touchedFs = TRUE,
                             !.outcome = "resolved", !.value = <<r.data>>]
         ELSE [reader EXCEPT !.pc = "done", !.touchedFs = TRUE,
                             !.outcome = "rejected", !.error = r.code]
  /\ UNCHANGED <<files, dirs, call, calls, config, obs, hist, retry, query, scannerVars>>

\* vault.ts, lines 72-86
vaultFileExists(filePath) == Guarded("vaultFileExists", filePath, "access")

\* lines 80-85: await fs.access(normalized) in a try whose catch returns false
AccessDone ==
  /\ reader.pc = "access"
  /\ \E code \in FsAccess(files, dirs, reader.normalized) :
       reader' = [reader EXCEPT !.pc = "done", !.touchedFs = TRUE,
                                !.outcome = "resolved", !.value = <<code = "ok">>]
  /\ UNCHANGED <<files, dirs, call, calls, config, obs, hist, retry, query, scannerVars>>

\* vault.ts, lines 91-109
listVaultDir(dirPath) == Guarded("listVaultDir", dirPath, "readdir")

\* lines 99-108: await fs.readdir(normalized, {withFileTypes: true}), the .md
\* files as `${normalized}/${name}`; the catch returns []
ReaddirDone ==
  /\ reader.pc = "readdir"
  /\ \E r \in FsReaddir(files, dirs, reader.normalized) :
       reader' =
         [reader EXCEPT !.pc = "done", !.touchedFs = TRUE, !.outcome = "resolved",
            !.value = IF r.code = "ok"
                      THEN <<{Under(reader.normalized, e.name) :
                                e \in {x \in r.entries : x.isFile /\ endsWith(x.name, MdExt)}}>>
                      ELSE <<{}>>]
  /\ UNCHANGED <<files, dirs, call, calls, config, obs, hist, retry, query, scannerVars>>

\* The readers on the mock vault, one call at a time, nothing else running.
ReadInit ==
  /\ dirs = VaultDirs
  /\ \/ files = VaultFiles
     \/ files = VaultFiles \cup {<<Target, "v0">>}
  /\ hist = InitHist
  /\ WriterIdle
  /\ config = [maxBackups |-> <<>>]
  /\ retry = IdleRetry
  /\ query = NoQuery
  /\ ScannerIdle
  /\ sobs = NoSobs
  /\ reader \in {[NoRead EXCEPT !.env = e] : e \in EnvArgs}

ReadNext ==
  \/ \E filePath \in ReadArgs : readVaultFile(filePath)
  \/ ReadFileDone
  \/ \E filePath \in ReadArgs : vaultFileExists(filePath)
  \/ AccessDone
  \/ \E dirPath \in ReadArgs : listVaultDir(dirPath)
  \/ ReaddirDone

ReadSpec == ReadInit /\ [][ReadNext]_vars

\* ----------------------------------------------------------- scanner claims
Fresh(s) == scan[s].pc = "done" /\ scan[s].result[1].cachedAt = <<>>
Served(s) == scan[s].pc = "done" /\ scan[s].result[1].cachedAt # <<>>
ResultOf(s) == scan[s].result[1]
Entries(res) ==
  {[path |-> res.files[i].path, source |-> res.files[i].source] :
     i \in 1..Len(res.files)}

\* what the hot-path rules select in the filesystem, for a scan of `root`
\* that started at `now`
NotesIn(dir) == {x[1] : x \in {y \in files : dirname(y[1]) = dir /\ endsWith(y[1], MdExt)}}
AlwaysNotes(root) ==
  UNION {NotesIn(Under(root, always_scan[i])) : i \in 1..Len(always_scan)}
RecentNotes(root, now) ==
  UNION {{n \in NotesIn(Under(root, recency_scan[i].path)) :
            Mtime(n) >= now - recency_scan[i].max_age_days * DayMs} :
         i \in 1..Len(recency_scan)}
SystemPresent(root) ==
  {n \in {Under(root, system_files[i]) : i \in 1..Len(system_files)} :
     Exists(files, n) \/ n \in dirs}
Selected(root, now) ==
  {[path |-> n, source |-> "always"] : n \in AlwaysNotes(root)}
  \cup {[path |-> n, source |-> "recency"] : n \in RecentNotes(root, now)}
  \cup {[path |-> n, source |-> "system"] : n \in SystemPresent(root)}

\* C14: on a quiet, healthy filesystem a fresh scanVault(root) returns exactly
\* one entry per .md file directly in an always-scan directory, tagged always,
\* one per .md file directly in a recency directory whose mtime is not older
\* than the scan's start minus max_age_days, tagged recency, and one per
\* existing system-file path, tagged system: M + r + |system files present|
\* entries and nothing else.
C14_ScanMembership ==
  \A s \in Scanners :
    Fresh(s) =>
      LET root == scan[s].root
          now == scan[s].now
          res == ResultOf(s)
      IN /\ Entries(res) = Selected(root, now)
         /\ Len(res.files) = Cardinality(Entries(res))
         /\ res.scannedCount =
              Cardinality(AlwaysNotes(root)) + Cardinality(RecentNotes(root, now))
                + Cardinality(SystemPresent(root))

\* a fresh scan of the vault, started when the recency file had become too
\* old: the note a.md and the system file, not the subdirectory d.md
C14_Witness ==
  \E s \in Scanners :
    /\ Fresh(s) /\ scan[s].root = V_Root /\ scan[s].now > T0
    /\ Exists(files, Target)
    /\ ResultOf(s).scannedCount = 2
    /\ Exists(files, F_Edge) /\ Exists(files, F_Deep) /\ Exists(files, F_Excluded)

\* the rule of C15 for the call in slot s, once it has returned
CacheRule(s) ==
  LET o == sobs.of[s]
      res == ResultOf(s)
      hit == o.startCache # <<>>
               /\ scan[s].now - o.startCacheTime < scanner_cache_ttl * 1000
  IN IF hit
     THEN /\ ~o.touchedFs
          /\ res.files = o.startCache[1].files
          /\ res.scannedCount = o.startCache[1].scannedCount
          /\ res.cachedAt = <<o.startCacheTime>>
     ELSE /\ o.touchedFs
          /\ res.cachedAt = <<>>

\* a step that may assign the cache slot: the end of a fresh scan, or
\* invalidateCache
CacheWriterStep ==
  \/ \E s \in Scanners :
       /\ scan[s].pc \notin {"idle", "done"}
       /\ Fresh(s)'
       /\ cachedResult' = scan'[s].result
       /\ cacheTime' = scan[s].now
  \/ /\ cachedResult' = <<>> /\ cacheTime' = 0
     /\ scan' = scan /\ sobs'.invalidated

\* C15: a scanVault call is served from the cache, without touching the
\* filesystem, exactly when a snapshot was cached at its start and less than
\* scanner_cache_ttl seconds had passed since the cache timestamp; it then
\* returns the cached files and scannedCount with cachedAt = that timestamp;
\* otherwise it scans and returns cachedAt = null. The cache slot changes
\* only in the last step of a fresh scan and in invalidateCache.
C15_CacheHitRule ==
  [][/\ \A s \in Scanners : (scan[s].pc = "done" => CacheRule(s))'
     /\ (<<cachedResult, cacheTime>>' # <<cachedResult, cacheTime>>) => CacheWriterStep
    ]_vars

\* a call served from a snapshot that is half a TTL old
C15_Witness ==
  \E s \in Scanners :
    /\ Served(s)
    /\ ResultOf(s).cachedAt = <<scan[s].now - TickMs>>
    /\ ResultOf(s).scannedCount >= 1

\* C16: the first scanVault call that starts after an invalidateCache() call
\* returned scans the filesystem and returns cachedAt = null, also when an
\* earlier scanVault call was suspended on I/O during the invalidation.
C16_InvalidationForcesFresh ==
  \A s \in Scanners :
    (scan[s].pc = "done" /\ sobs.of[s].afterInvalidate) => Fresh(s)

Lists(s, path) == \E i \in 1..Len(ResultOf(s).files) : ResultOf(s).files[i].path = path

\* C17: when only the vault itself is ever scanned, a scanVault call that
\* starts after a write of a note through the write path returned success
\* returns a result that lists the note, whatever the age of the cache.
C17_ReadYourWrites ==
  \A s \in Scanners :
    (/\ scan[s].pc = "done"
     /\ sobs.of[s].afterWrite
     /\ sobs.roots = {V_Root})
    => Lists(s, Target)

\* C18: a scanVault call on the vault that starts scanner_cache_ttl seconds
\* or more after a write of a note into the always-scan directory returned
\* success returns a result that lists the note.
C18_EventualVisibility ==
  \A s \in Scanners :
    (/\ scan[s].pc = "done"
     /\ scan[s].root = V_Root
     /\ sobs.of[s].afterWrite
     /\ sobs.of[s].sinceWrite >= scanner_cache_ttl * 1000
     /\ Exists(files, Target))
    => Lists(s, Target)

\* C19: scanVault never rejects because a listing or a stat failed; a fresh
\* scan returns only selected entries, none from a directory whose listing
\* failed and none whose stat failed, and it returns every selected entry
\* that no failure touched; a missing system file is left out.
C19_PartialFailureNotFatal ==
  \A s \in Scanners :
    /\ scan[s].pc # "rejected"
    /\ Fresh(s) =>
         LET got == Entries(ResultOf(s))
             want == Selected(scan[s].root, scan[s].now)
             failed == sobs.of[s].failed
         IN /\ got \subseteq want
            /\ \A e \in got : e.path \notin failed /\ dirname(e.path) \notin failed
            /\ \A e \in want \ got : e.path \in failed \/ dirname(e.path) \in failed
            /\ \A i \in 1..Len(system_files) :
                 LET n == Under(scan[s].root, system_files[i]) IN
                 ~(Exists(files, n) \/ n \in dirs) => \A e \in got : e.path # n

\* the listing of the always-scan directory failed: the note a.md is missing
\* from the result, the system file is there
C19_Witness ==
  \E s \in Scanners :
    /\ Fresh(s) /\ scan[s].root = V_Root
    /\ Exists(files, Target)
    /\ D_Always \in sobs.of[s].failed
    /\ Entries(ResultOf(s)) = {[path |-> F_Sys, source |-> "system"]}

\* ------------------------------------------------------- isWithinRoot claim
toLowerCaseSegs(segs) == [i \in 1..Len(segs) |-> toLowerCase(segs[i])]
\* the segments of a normalized, lower-cased path
NormalSegs(path) == NormSegs(Split(toLowerCase(normalizePath(path))), <<>>)
\* the location a path names, segment by segment from the filesystem root,
\* relative paths starting at the working directory, case folded
Location(path) ==
  toLowerCaseSegs(NormSegs((IF IsAbsolute(path) THEN <<>> ELSE Split(Cwd)) \o Split(path), <<>>))
IsPrefixOf(a, b) == Len(b) >= Len(a) /\ SubSeq(b, 1, Len(a)) = a
HasDotDot(path) == \E i \in 1..Len(Split(path)) : Split(path)[i] = <<".", ".">>
\* p lies in a sibling of r whose name starts with the name of r
SiblingByPrefix(pth, r) ==
  LET a == Location(r)
      b == Location(pth)
      n == Len(a)
  IN /\ n >= 1 /\ Len(b) >= n
     /\ SubSeq(b, 1, n - 1) = SubSeq(a, 1, n - 1)
     /\ b[n] # a[n] /\ startsWith(b[n], a[n])

\* C20: isWithinRoot(p, r) is true exactly when the segments of the
\* normalized, lower-cased r are a prefix of those of the normalized,
\* lower-cased p; so it is true for p = r, false for every p with '..'
\* segments whose location is outside r, and false for a p in a sibling
\* directory whose name only starts with the name of r.
C20_WithinRootIff ==
  query.pc = "answered" =>
    /\ query.answer = IsPrefixOf(NormalSegs(query.r), NormalSegs(query.p))
    /\ query.p = query.r => query.answer
    /\ (HasDotDot(query.p) /\ ~IsPrefixOf(Location(query.r), Location(query.p)))
         => ~query.answer
    /\ SiblingByPrefix(query.p, query.r) => ~query.answer

\* the sibling /vx of the root /v is refused
C20_Witness ==
  /\ query.pc = "answered"
  /\ query.r = <<"/", "v">>
  /\ query.p = <<"/", "v", "x", "/", "x">>
  /\ SiblingByPrefix(query.p, query.r)
  /\ ~query.answer

\* ------------------------------------------------------------ reader claims
\* the path of the finished reader call names something that exists
PathExists == Exists(files, reader.normalized) \/ reader.normalized \in dirs

\* C21: with the vault root configured, each of readVaultFile, vaultFileExists
\* and listVaultDir rejects with 'Path outside vault' every path whose
\* location is outside the vault root, without any filesystem access; for a
\* path inside the root vaultFileExists resolves (never rejects), with true
\* exactly when the path exists and with false when it is missing.
C21_ReadGuardAndExists ==
  (reader.pc = "done" /\ reader.env # <<>>) =>
    /\ LocatedOutside(reader.filePath) =>
         /\ reader.outcome = "rejected"
         /\ reader.error = "Path outside vault"
         /\ ~reader.touchedFs
    /\ (reader.op = "vaultFileExists" /\ ~LocatedOutside(reader.filePath)) =>
         /\ reader.outcome = "resolved"
         /\ reader.value = <<PathExists>>

\* ------------------------------------------------------ writer claims, II
\* the backups of the target of call p are what they were before the call
BackupsUntouched(p) ==
  \A i \in BackupSlots :
    ContentOf(files, BackupName(call[p].normalized, i))
      = ContentOf(obs[p].preFiles, BackupName(call[p].normalized, i))
\* nothing, file or directory, was at the target path before call p
NotThere(p) ==
  /\ ~Exists(obs[p].preFiles, call[p].normalized)
  /\ call[p].normalized \notin obs[p].preDirs

\* C22: a call with backup:false never creates, renames or deletes a .bak.n
\* file and returns backupPath undefined; a backup-enabled call on a target
\* that does not exist yet does no rotation and no backup copy either, returns
\* backupPath undefined, and the missing target is not an error: the call
\* succeeds unless one of its filesystem operations fails.
C22_NoBackupWhenNoneDue ==
  \A p \in Procs :
    (call[p].pc # "idle" /\ Accepted(p)) =>
      /\ ~call[p].shouldBackup =>
           /\ BackupsUntouched(p)
           /\ call[p].pc \notin {"access", "rotate", "backupCopy", "rollback"}
           /\ call[p].backupPath = None
           /\ Returned(p) => call[p].result.backupPath = None
      /\ (call[p].shouldBackup /\ NotThere(p)) =>
           /\ BackupsUntouched(p)
           /\ call[p].pc \notin {"rotate", "backupCopy", "rollback"}
           /\ call[p].backupPath = None
           /\ Returned(p) => call[p].result.backupPath = None
           /\ (Returned(p) /\ ~obs[p].faulted) => call[p].result.success

\* a backup-enabled write succeeded on a target that an earlier failed call
\* had lost, next to the backup that call had made
C22_Witness ==
  \E p \in Procs :
    /\ Returned(p) /\ call[p].shouldBackup /\ NotThere(p)
    /\ call[p].result.success /\ call[p].result.backupPath = None
    /\ Exists(obs[p].preFiles, BackupName(call[p].normalized, 1))
    /\ Read(files, call[p].normalized) = call[p].content

\* C23: during a backup-enabled call on an existing target, in every state
\* from its start to its return, the content the target had before the call
\* is in the target or in <target>.bak.1; and the target differs from that
\* content only after the temp file was written and the copy of the old
\* content into .bak.1 completed.
C23_CrashSafeOverwrite ==
  \A p \in Procs :
    (/\ call[p].pc # "idle" /\ Accepted(p)
     /\ call[p].shouldBackup
     /\ Exists(obs[p].preFiles, call[p].normalized)) =>
      /\ \/ TargetNow(p) = TargetBefore(p)
         \/ ContentOf(files, BackupName(call[p].normalized, 1)) = TargetBefore(p)
      /\ TargetNow(p) # TargetBefore(p) => obs[p].backupMade

\* slot i of the target of call p, now and before the call
SlotNow(p, i) == ContentOf(files, BackupName(call[p].normalized, i))
SlotBefore(p, i) == ContentOf(obs[p].preFiles, BackupName(call[p].normalized, i))

\* C24: when none of its filesystem operations fails, createBackup on an
\* existing target completes for every pattern of occupied slots 1..N, gaps
\* included; afterwards the former content of slot N is in no slot, slot i+1
\* holds what slot i held for every i < N (nothing when slot i was empty),
\* and slot 1 holds the target's content.
C24_RotationToleratesGaps ==
  \A p \in Procs :
    LET n == call[p].maxBackups IN
    /\ (/\ call[p].pc \in {"copyTarget", "cleanup", "done"} /\ ~obs[p].faulted
        /\ call[p].shouldBackup /\ Exists(obs[p].preFiles, call[p].normalized))
       => obs[p].backupMade
    /\ (call[p].pc \in {"catchCleanup", "rollback"} /\ call[p].shouldBackup)
       => obs[p].faulted
    /\ (obs[p].backupMade /\ ~obs[p].faulted) =>
         /\ SlotNow(p, 1) = TargetBefore(p)
         /\ \A i \in 1..(n - 1) : SlotNow(p, i + 1) = SlotBefore(p, i)
         /\ (n >= 1 /\ SlotBefore(p, n) # Absent) =>
              \A j \in BackupSlots : SlotNow(p, j) # SlotBefore(p, n)

\* slots 1 and 3 of 3 were occupied: b1 moved to slot 2, slot 3 is empty
\* because slot 2 was, b3 is gone
C24_Witness ==
  \E p \in Procs :
    /\ obs[p].backupMade /\ ~obs[p].faulted /\ call[p].maxBackups = 3
    /\ SlotBefore(p, 1) = "b1" /\ SlotBefore(p, 2) = Absent /\ SlotBefore(p, 3) = "b3"
    /\ SlotNow(p, 1) = "v0" /\ SlotNow(p, 2) = "b1" /\ SlotNow(p, 3) = Absent

\* C25: a call that returns success:false leaves every backup slot of its
\* target as it was before the call: none is shifted, overwritten or dropped.
C25_FailedWriteKeepsHistory ==
  \A p \in Procs :
    (Returned(p) /\ Accepted(p) /\ ~call[p].result.success) => BackupsUntouched(p)

\* the paths whose file was created, changed or removed since call p started
Touched(p) ==
  {e[1] : e \in (files \ obs[p].preFiles) \cup (obs[p].preFiles \ files)}

\* C26: for a path accepted by the traversal check (the root itself or a
\* descendant), in every state of the call every file it has created,
\* overwritten, renamed or deleted and every directory it has created lies
\* inside the vault root.
C26_WritesConfined ==
  \A p \in Procs :
    (call[p].pc # "idle" /\ Accepted(p)) =>
      /\ \A path \in Touched(p) : ~LocatedOutside(path)
      /\ \A dir \in dirs \ obs[p].preDirs : ~LocatedOutside(dir)

\* ---------------------------------------------------- scanner claims, II
\* C27: every VaultFile in the result of a scanVault(root) call has a path
\* inside root and a relativePath that, joined to root, gives that path.
C27_ResultBelongsToRoot ==
  \A s \in Scanners :
    scan[s].pc = "done" =>
      \A i \in 1..Len(ResultOf(s).files) :
        LET f == ResultOf(s).files[i] IN
        /\ isWithinRoot(f.path, scan[s].root)
        /\ Under(scan[s].root, f.relativePath) = f.path

\* C28: while scanVault calls overlap, the cache timestamp never decreases
\* except through invalidateCache, and a cached result is never replaced by
\* the result of a scan that started before the scan that produced it.
C28_CacheNeverRegresses ==
  [][cacheTime' < cacheTime =>
       /\ cachedResult' = <<>> /\ cacheTime' = 0
       /\ scan' = scan /\ sobs'.invalidated
    ]_vars

\* ----------------------------------------------------- concurrency claim
\* both callers have returned from their call on the same target, and no
\* filesystem operation of either call met a fault
BothReturnedClean ==
  /\ \A p \in Procs : Returned(p) /\ call[p].normalized = Target /\ ~obs[p].faulted

\* C29: when two safeWriteFile calls on one target interleave (and no
\* filesystem operation meets a fault), the copy to the target of a call puts
\* that call's own content there; once both have returned, if one of them
\* returned success:true the target holds the content of a call that returned
\* success:true, and <target>.tmp does not exist.
C29_InterleavedWritesLoseNothing ==
  [][/\ \A p \in Procs :
          (/\ call[p].pc = "copyTarget" /\ call'[p].pc = "cleanup"
           /\ \A q \in Procs : ~obs'[q].faulted)
          => ContentOf(files', Target) = call[p].content
     /\ BothReturnedClean' =>
          /\ (\E p \in Procs : call'[p].result.success) =>
               \E p \in Procs : /\ call'[p].result.success
                                /\ ContentOf(files', Target) = call'[p].content
          /\ ~Exists(files', Target \o TmpSuffix)
    ]_vars

\* ---------------------------------------------------- scanner claims, III
\* C30: whatever the interleaving of writes of .md notes in scanned
\* directories with scanVault calls, no entry tagged always or recency, in a
\* result, in the cache or in a scan under way, names a <target>.tmp or a
\* <target>.bak.n file.
C30_NoWriterArtifacts ==
  LET clean(fs) ==
        \A i \in 1..Len(fs) :
          fs[i].source \in {"always", "recency"} => ~WriterArtifact(fs[i].path)
  IN /\ \A s \in Scanners :
          /\ clean(scan[s].files)
          /\ scan[s].pc = "done" => clean(ResultOf(s).files)
          /\ \A k \in 1..Len(scan[s].pending) : ~WriterArtifact(scan[s].pending[k])
     /\ cachedResult # <<>> => clean(cachedResult[1].files)

\* a fresh scan listed the directory of the note while the writer's temp
\* file or backup was in it, and returned the note
C30_Witness ==
  \E s \in Scanners :
    /\ Fresh(s) /\ sobs.of[s].artifacts
    /\ Lists(s, Target)
    /\ Len(ResultOf(s).files) = 2

====
